---- MODULE Spec2Model ----
(***************************************************************************)
(* Model of src/app.py (Industrial Gauge Digitizer): the tolerant JSON     *)
(* extraction, the model fallback chain of analyze_gauge, and the session  *)
(* state (staging_data, history) driven by the Analyze and Verify buttons. *)
(*                                                                         *)
(* A Python str is JStr(s), s a sequence of lexical chunks.  The chunks of  *)
(* a response text are                                                     *)
(*   "{"  "}"  ","          the JSON punctuation                           *)
(*   "error:" "reading:" "condition:"   a quoted key followed by its colon *)
(*   "1"                    a number literal                               *)
(*   "'Warning'"            the JSON string literal "Warning"              *)
(*   "p"                    prose, not part of any JSON value              *)
(*   "[["                   a run of '[' deeper than the interpreter's     *)
(*                          recursion limit                                *)
(***************************************************************************)
EXTENDS Integers, Sequences, FiniteSets, TLC

VARIABLES
    staging_data,   \* st.session_state['staging_data']
    history,        \* st.session_state.history, most recent first
    form,           \* what the last script run rendered in the right column
    alert,          \* "Error" while the st.error message of line 151 is shown
    pc,             \* "idle", or the position inside the Analyze handler
    model_idx,      \* analyze_gauge: index of the candidate the loop is at
    last_error,     \* analyze_gauge: local last_error
    ai_data,        \* the value analyze_gauge returned to the handler
    calls,          \* log of the requests of the current analyze_gauge call
    committed,      \* log of the records committed, in commit order
    text,           \* extract_json harness: the argument
    parsed          \* extract_json harness: the outcome

vars == <<staging_data, history, form, alert, pc, model_idx, last_error, ai_data,
          calls, committed, text, parsed>>

-----------------------------------------------------------------------------
(* Bounds *)

MaxLen == 4

MaxHistory == 2

-----------------------------------------------------------------------------
(* Python values *)

PyNone == [kind |-> "none"]

JNum == [kind |-> "num"]

JStr(s) == [kind |-> "str", s |-> s]

JObj(f) == [kind |-> "obj", fields |-> f]

EmptyFields == [k \in {} |-> PyNone]

KeyOf(tok) ==
    CASE tok = "error:" -> "error"
      [] tok = "reading:" -> "reading"
      [] tok = "condition:" -> "condition"

KeyTokens == {"error:", "reading:", "condition:"}

Alphabet == {"{", "}", ",", "p", "1", "'Warning'", "[["} \cup KeyTokens

Texts == UNION {[1..n -> Alphabet] : n \in 0..MaxLen}

-----------------------------------------------------------------------------
(* json.loads, as a left-to-right decoder over the chunks.  An outcome is   *)
(* [tag |-> "ok", v, next], [tag |-> "decode"] (json.JSONDecodeError) or    *)
(* [tag |-> "raise", exc] (any other exception).                            *)

DecodeError == [tag |-> "decode"]

Raised(e) == [tag |-> "raise", exc |-> e]

Ok(v, n) == [tag |-> "ok", v |-> v, next |-> n]

RECURSIVE ScanValue(_, _)
RECURSIVE ScanMembers(_, _, _)

ScanValue(t, i) ==
    IF i > Len(t) THEN DecodeError
    ELSE CASE t[i] = "1" -> Ok(JNum, i + 1)
           [] t[i] = "'Warning'" -> Ok(JStr(<<"Warning">>), i + 1)
           [] t[i] = "[[" -> Raised("RecursionError")
           [] t[i] = "{" ->
                IF i + 1 <= Len(t) /\ t[i + 1] = "}"
                THEN Ok(JObj(EmptyFields), i + 2)
                ELSE ScanMembers(t, i + 1, EmptyFields)
           [] OTHER -> DecodeError

ScanMembers(t, i, acc) ==
    IF i > Len(t) \/ t[i] \notin KeyTokens THEN DecodeError
    ELSE LET r == ScanValue(t, i + 1) IN
         IF r.tag # "ok" THEN r
         ELSE LET acc2 == (KeyOf(t[i]) :> r.v) @@ acc IN
              IF r.next > Len(t) THEN DecodeError
              ELSE CASE t[r.next] = "}" -> Ok(JObj(acc2), r.next + 1)
                     [] t[r.next] = "," -> ScanMembers(t, r.next + 1, acc2)
                     [] OTHER -> DecodeError

json_loads(s) ==
    IF s.kind # "str" THEN Raised("TypeError")
    ELSE LET r == ScanValue(s.s, 1) IN
         IF r.tag = "ok"
         THEN IF r.next = Len(s.s) + 1 THEN Ok(r.v, r.next) ELSE DecodeError
         ELSE r

-----------------------------------------------------------------------------
(* re.search(r'\{.*\}', text, re.DOTALL): the leftmost "{" and, greedily,   *)
(* the last "}" after it.                                                   *)

Opens(t) == {i \in 1..Len(t) : t[i] = "{"}

Closes(t) == {i \in 1..Len(t) : t[i] = "}"}

Min(S) == CHOOSE x \in S : \A y \in S : x <= y

Max(S) == CHOOSE x \in S : \A y \in S : x >= y

HasMatch(t) == Opens(t) # {} /\ \E j \in Closes(t) : j > Min(Opens(t))

MatchGroup(t) == SubSeq(t, Min(Opens(t)), Max(Closes(t)))

-----------------------------------------------------------------------------
(* extract_json.  [tag |-> "return", v] or [tag |-> "raise", exc].          *)

Return(v) == [tag |-> "return", v |-> v]

ParseFailure(t) ==
    JObj([k \in {"error", "raw"} |->
            IF k = "error" THEN JStr(<<"Failed to parse JSON">>) ELSE t])

extract_json(t) ==
    LET first == json_loads(t) IN
    CASE first.tag = "ok" -> Return(first.v)
      [] first.tag = "raise" -> first
      [] first.tag = "decode" ->
           IF HasMatch(t.s)
           THEN LET second == json_loads(JStr(MatchGroup(t.s))) IN
                IF second.tag = "ok" THEN Return(second.v)
                ELSE Return(ParseFailure(t))
           ELSE Return(ParseFailure(t))

-----------------------------------------------------------------------------
(* analyze_gauge: the fallback chain over the candidate models.             *)

models == <<"meta-llama/llama-4-scout-17b-16e-instruct",
            "llama-3.2-90b-vision-preview",
            "llama-3.2-11b-vision-preview">>

\* str(e) of the exceptions client.chat.completions.create can raise
ErrDescs == {"rate limit", "model decommissioned"}

\* completion.choices[0].message.content of a request that returned: a str, or None
ResponseTexts ==
    { <<"{", "reading:", "1", "}">>,
      <<"{", "}">>,
      <<"{", "error:", "'Warning'", "}">>,
      <<"{", "reading:", "'Warning'", "}">>,
      <<"{", "condition:", "'Warning'", "}">>,
      <<"{", "condition:", "1", "}">>,
      <<"{", "reading:", "1", ",", "condition:", "'Warning'", "}">>,
      <<"p", "{", "reading:", "1", "}", "p">>,
      <<"p">>,
      <<"1">>,
      <<"'Warning'">>,
      <<"[[">> }

Responses == {JStr(t) : t \in ResponseTexts} \cup {PyNone}

Raise(d) == [raises |-> TRUE, desc |-> d, content |-> PyNone]

Respond(c) == [raises |-> FALSE, desc |-> "", content |-> c]

Call(m, out) == [model |-> m, out |-> out]

AllFailedResult(err) ==
    JObj([k \in {"error"} |-> JStr(<<"All models failed. Last error: ", err>>)])

\* line 145-147: the button is clicked and the image is encoded
ClickAnalyze ==
    /\ pc = "idle"
    /\ pc' = "loop"
    /\ model_idx' = 1
    /\ last_error' = ""
    /\ calls' = <<>>
    /\ alert' = ""
    /\ UNCHANGED <<staging_data, history, form, ai_data, committed, text, parsed>>

\* line 147: encode_image_to_base64 raises (image.save of a mode JPEG cannot
\* hold); the script run ends there and the right column is not rendered
EncodeRaises ==
    /\ pc = "idle"
    /\ form' = "error"
    /\ alert' = ""
    /\ UNCHANGED <<staging_data, history, pc, model_idx, last_error, ai_data,
                   calls, committed, text, parsed>>

\* RequestRaises keeping the first failure instead of the last
RequestRaises_KeepFirst(d) ==
    /\ pc = "loop"
    /\ model_idx <= Len(models)
    /\ calls' = Append(calls, Call(models[model_idx], Raise(d)))
    /\ last_error' = IF last_error = "" THEN d ELSE last_error
    /\ model_idx' = model_idx + 1
    /\ UNCHANGED <<staging_data, history, form, alert, pc, ai_data, committed,
                   text, parsed>>

\* RequestRaises retrying the second candidate once before moving on
RequestRaises_Retry(d) ==
    /\ pc = "loop"
    /\ model_idx <= Len(models)
    /\ calls' = Append(calls, Call(models[model_idx], Raise(d)))
    /\ last_error' = d
    /\ model_idx' = IF Len(calls) = 1 THEN model_idx ELSE model_idx + 1
    /\ UNCHANGED <<staging_data, history, form, alert, pc, ai_data, committed,
                   text, parsed>>

\* lines 99-118, the request raises
RequestRaises(d) ==
    /\ pc = "loop"
    /\ model_idx <= Len(models)
    /\ calls' = Append(calls, Call(models[model_idx], Raise(d)))
    /\ last_error' = d
    /\ model_idx' = model_idx + 1
    /\ UNCHANGED <<staging_data, history, form, alert, pc, ai_data, committed,
                   text, parsed>>

\* lines 99-118, the request returns a completion with content c
RequestReturns(c) ==
    /\ pc = "loop"
    /\ model_idx <= Len(models)
    /\ calls' = Append(calls, Call(models[model_idx], Respond(c)))
    /\ LET r == extract_json(c) IN
       IF r.tag = "return"
       THEN /\ ai_data' = r.v
            /\ pc' = "returned"
            /\ UNCHANGED <<last_error, model_idx>>
       ELSE /\ last_error' = r.exc
            /\ model_idx' = model_idx + 1
            /\ UNCHANGED <<ai_data, pc>>
    /\ UNCHANGED <<staging_data, history, form, alert, committed, text, parsed>>

\* line 120
AllFailed ==
    /\ pc = "loop"
    /\ model_idx > Len(models)
    /\ ai_data' = AllFailedResult(last_error)
    /\ pc' = "returned"
    /\ UNCHANGED <<staging_data, history, form, alert, model_idx, last_error,
                   calls, committed, text, parsed>>

-----------------------------------------------------------------------------
(* The script run: the Analyze handler's use of the result, the             *)
(* verification form, and the commit.                                       *)

\* Python truth value
Truthy(v) ==
    CASE v.kind = "none" -> FALSE
      [] v.kind = "num" -> TRUE
      [] v.kind = "str" -> v.s # <<>>
      [] v.kind = "obj" -> DOMAIN v.fields # {}

\* "error" in ai_data, for the container types
HasErrorKey(v) ==
    CASE v.kind = "obj" -> "error" \in DOMAIN v.fields
      [] v.kind = "str" -> \E i \in 1..Len(v.s) : v.s[i] = "error"
      [] OTHER -> FALSE

\* stage.get(key), None when absent
Get(stage, key) ==
    IF key \in DOMAIN stage.fields THEN stage.fields[key] ELSE PyNone

\* line 171: float() raises on what stage.get('reading') or 0.0 gives
ReadingRaises(stage) ==
    LET r == Get(stage, "reading") IN Truthy(r) /\ r.kind # "num"

\* line 171: float(stage.get('reading') or 0.0), the number literal being 1
default_reading(stage) ==
    IF Truthy(Get(stage, "reading")) THEN 1 ELSE 0

cond_options == <<"Good", "Warning", "Critical", "Damaged">>

\* opt in ai_cond
OptIn(opt, ai_cond) ==
    CASE ai_cond.kind = "str" -> \E i \in 1..Len(ai_cond.s) : ai_cond.s[i] = opt
      [] ai_cond.kind = "obj" -> opt \in DOMAIN ai_cond.fields
      [] OTHER -> FALSE

\* line 178: stage.get('condition', 'Good')
AiCond(stage) ==
    IF "condition" \in DOMAIN stage.fields
    THEN stage.fields["condition"] ELSE JStr(<<"Good">>)

\* line 182: `opt in ai_cond` raises when ai_cond is not a container
ConditionRaises(stage) == AiCond(stage).kind \in {"num", "none"}

\* lines 180-182: the last option found in ai_cond, else the first
default_idx(stage) ==
    LET hits == {i \in 1..Len(cond_options) :
                    OptIn(cond_options[i], AiCond(stage))}
    IN  IF hits = {} THEN 1 ELSE Max(hits)

\* lines 162-188: what the right column shows for a staging_data value
Render(stage) ==
    IF ~Truthy(stage) THEN "hidden"
    ELSE IF stage.kind # "obj" THEN "error"
    ELSE IF ReadingRaises(stage) THEN "error"
    ELSE IF ConditionRaises(stage) THEN "error"
    ELSE "shown"

ResetLocals ==
    /\ pc' = "idle"
    /\ model_idx' = 1
    /\ last_error' = ""
    /\ ai_data' = PyNone
    /\ calls' = <<>>

\* line 150 raises: ai_data is not a container; the script run ends there
HandleTypeError ==
    /\ pc = "returned"
    /\ ai_data.kind \in {"num", "none"}
    /\ form' = "error"
    /\ alert' = ""
    /\ ResetLocals
    /\ UNCHANGED <<staging_data, history, committed, text, parsed>>

\* HandleError discarding the staged result
HandleError_Clears ==
    /\ pc = "returned"
    /\ ai_data.kind \notin {"num", "none"}
    /\ HasErrorKey(ai_data)
    /\ alert' = "Error"
    /\ staging_data' = PyNone
    /\ form' = Render(PyNone)
    /\ ResetLocals
    /\ UNCHANGED <<history, committed, text, parsed>>

\* lines 150-151, then the rest of the same script run
HandleError ==
    /\ pc = "returned"
    /\ ai_data.kind \notin {"num", "none"}
    /\ HasErrorKey(ai_data)
    /\ alert' = "Error"
    /\ form' = Render(staging_data)
    /\ ResetLocals
    /\ UNCHANGED <<staging_data, history, committed, text, parsed>>

\* HandleStage without the test of line 150
HandleStage_NoTest ==
    /\ pc = "returned"
    /\ ai_data.kind \notin {"num", "none"}
    /\ staging_data' = ai_data
    /\ alert' = ""
    /\ form' = Render(ai_data)
    /\ ResetLocals
    /\ UNCHANGED <<history, committed, text, parsed>>

\* HandleStage logging the result without the operator's commit
HandleStage_Passthrough ==
    /\ pc = "returned"
    /\ ai_data.kind \notin {"num", "none"}
    /\ ~HasErrorKey(ai_data)
    /\ staging_data' = ai_data
    /\ alert' = ""
    /\ form' = Render(ai_data)
    /\ history' = IF Len(history) < MaxHistory
                  THEN <<[Time |-> "10:00:00", Reading |-> 0, Unit |-> "PSI",
                          Condition |-> "Good", Notes |-> "",
                          Verified |-> TRUE]>> \o history
                  ELSE history
    /\ ResetLocals
    /\ UNCHANGED <<committed, text, parsed>>

\* lines 152-155, then the script run st.rerun() starts
HandleStage ==
    /\ pc = "returned"
    /\ ai_data.kind \notin {"num", "none"}
    /\ ~HasErrorKey(ai_data)
    /\ staging_data' = ai_data
    /\ alert' = ""
    /\ form' = Render(ai_data)
    /\ ResetLocals
    /\ UNCHANGED <<history, committed, text, parsed>>

\* datetime.now().strftime("%H:%M:%S")
Times == {"10:00:00"}

\* the operator keeps the reading the form proposes, or types another
new_reading(stage, retyped) == IF retyped THEN 7 ELSE default_reading(stage)

Record(timestamp, reading, unit, condition, notes) ==
    [Time |-> timestamp, Reading |-> reading, Unit |-> unit,
     Condition |-> condition, Notes |-> notes, Verified |-> TRUE]

\* Commit with history.append(record) instead of history.insert(0, record)
Commit_Append(timestamp, retyped) ==
    /\ pc = "idle"
    /\ form = "shown"
    /\ Len(history) < MaxHistory
    /\ LET stage == staging_data
           record == Record(timestamp, new_reading(stage, retyped), "PSI",
                            cond_options[default_idx(stage)], "")
       IN  /\ history' = Append(history, record)
           /\ committed' = Append(committed, record)
    /\ staging_data' = PyNone
    /\ form' = Render(PyNone)
    /\ alert' = ""
    /\ UNCHANGED <<pc, model_idx, last_error, ai_data, calls, text, parsed>>

\* lines 188-204, then the script run st.rerun() starts
Commit(timestamp, retyped) ==
    /\ pc = "idle"
    /\ form = "shown"
    /\ Len(history) < MaxHistory
    /\ LET stage == staging_data
           record == Record(timestamp, new_reading(stage, retyped), "PSI",
                            cond_options[default_idx(stage)], "")
       IN  /\ history' = <<record>> \o history
           /\ committed' = Append(committed, record)
    /\ staging_data' = PyNone
    /\ form' = Render(PyNone)
    /\ alert' = ""
    /\ UNCHANGED <<pc, model_idx, last_error, ai_data, calls, text, parsed>>

\* any other widget interaction (radio, uploader, download button): the
\* script runs again from the top
Rerun ==
    /\ pc = "idle"
    /\ form' = Render(staging_data)
    /\ alert' = ""
    /\ UNCHANGED <<staging_data, history, pc, model_idx, last_error, ai_data,
                   calls, committed, text, parsed>>

-----------------------------------------------------------------------------

NotRun == [tag |-> "notrun"]

\* lines 22-26
SessionInit ==
    /\ staging_data = PyNone
    /\ history = <<>>
    /\ form = "hidden"
    /\ alert = ""
    /\ pc = "idle"
    /\ model_idx = 1
    /\ last_error = ""
    /\ ai_data = PyNone
    /\ calls = <<>>
    /\ committed = <<>>

Init ==
    /\ SessionInit
    /\ text = PyNone
    /\ parsed = NotRun

Next ==
    \/ ClickAnalyze
    \/ EncodeRaises
    \/ \E d \in ErrDescs : RequestRaises(d)
    \/ \E c \in Responses : RequestReturns(c)
    \/ AllFailed
    \/ HandleTypeError
    \/ HandleError
    \/ HandleStage
    \/ \E ts \in Times : \E retyped \in BOOLEAN : Commit(ts, retyped)
    \/ Rerun

Spec == Init /\ [][Next]_vars

(* extract_json applied to every text up to MaxLen chunks, and to None.     *)

ExtractInit ==
    /\ SessionInit
    /\ text \in {JStr(t) : t \in Texts} \cup {PyNone}
    /\ parsed = NotRun

ApplyExtract ==
    /\ parsed = NotRun
    /\ parsed' = extract_json(text)
    /\ UNCHANGED <<staging_data, history, form, alert, pc, model_idx,
                   last_error, ai_data, calls, committed, text>>

ExtractNext == ApplyExtract

SpecExtract == ExtractInit /\ [][ExtractNext]_vars

-----------------------------------------------------------------------------
(* Properties *)

Requested(k) == calls[k].out

AllRaised == \A k \in 1..Len(calls) : Requested(k).raises

\* C1: in analyze_gauge, a request that completes without raising, whatever
\* the text of its response, is the last request of the call: the function
\* has returned the result of extract_json on that response and no later
\* candidate is requested.
C1_FirstResponseReturns ==
    \A k \in 1..Len(calls) :
        (~Requested(k).raises /\ Requested(k).content.kind = "str") =>
            /\ k = Len(calls)
            /\ pc = "returned"
            /\ extract_json(Requested(k).content) = Return(ai_data)

\* C2: when every candidate's request raised, the result is a mapping whose
\* only key is `error`, and its message embeds the description of the last
\* candidate's failure and of no other failure.
C2_LastErrorOnly ==
    (pc = "returned" /\ Len(calls) = Len(models) /\ AllRaised) =>
        /\ ai_data.kind = "obj"
        /\ DOMAIN ai_data.fields = {"error"}
        /\ LET msg == ai_data.fields["error"].s IN
           /\ msg[Len(msg)] = Requested(Len(models)).desc
           /\ \A k \in 1..Len(models) : \A i \in 1..Len(msg) :
                 msg[i] = Requested(k).desc
                    => Requested(k).desc = Requested(Len(models)).desc

C2_Witness ==
    /\ pc = "returned"
    /\ Len(calls) = Len(models)
    /\ AllRaised
    /\ Requested(1).desc # Requested(Len(models)).desc

\* C3: extract_json raises on no response text, and whenever it recovers no
\* JSON value it returns a mapping that has an `error` key.
C3_NeverRaises ==
    (parsed.tag # "notrun" /\ text.kind = "str") =>
        /\ parsed.tag = "return"
        /\ \/ json_loads(text).tag = "ok"
           \/ /\ HasMatch(text.s)
              /\ json_loads(JStr(MatchGroup(text.s))).tag = "ok"
           \/ parsed.v.kind = "obj" /\ "error" \in DOMAIN parsed.v.fields

\* C4: the staged result never has an `error` key, so the verification form
\* is never shown for a result that has one.
C4_StagedHasNoError ==
    /\ staging_data.kind = "obj" => "error" \notin DOMAIN staging_data.fields
    /\ staging_data.kind = "str"
          => \A i \in 1..Len(staging_data.s) : staging_data.s[i] # "error"

C4_Witness ==
    /\ alert = "Error"
    /\ staging_data = PyNone
    /\ Len(history) = 1

\* C5: the history holds exactly one record per commit performed, and a step
\* that changes the history is a commit taken while the form shows a staged
\* result without an `error` key.
C5_OnlyCommitAdds ==
    /\ [](Len(history) = Len(committed))
    /\ [][history' # history =>
            /\ pc = "idle" /\ form = "shown"
            /\ staging_data.kind = "obj"
            /\ "error" \notin DOMAIN staging_data.fields
            /\ Len(committed') = Len(committed) + 1]_vars

C5_Witness ==
    /\ Len(history) = 2
    /\ Len(committed) = 2
    /\ staging_data.kind = "obj"
    /\ form = "shown"

Reverse(q) == [i \in 1..Len(q) |-> q[Len(q) + 1 - i]]

\* C6: a commit clears the staged result and puts exactly one new record at
\* the front of the history, the earlier records unchanged and in the same
\* order; the history is the committed records, most recent first.
C6_CommitPrepends ==
    /\ [](history = Reverse(committed))
    /\ [][committed' # committed =>
            /\ staging_data' = PyNone
            /\ Len(history') = Len(history) + 1
            /\ history'[1] = committed'[Len(committed')]
            /\ Tail(history') = history]_vars
    /\ [][Len(history') >= Len(history)
            /\ history = SubSeq(history', Len(history') - Len(history) + 1,
                                Len(history'))]_vars

C6_Witness ==
    /\ Len(history) = 2
    /\ history[1] # history[2]
    /\ staging_data = PyNone

\* C7: extract_json returns the strict parse of the whole text when that
\* succeeds; otherwise the parse of the span from the first "{" to the last
\* "}" when that span exists and parses; otherwise the failure mapping with
\* the fixed error marker and the text unchanged under `raw`.
C7_StrategyOrder ==
    (parsed.tag # "notrun" /\ text.kind = "str") =>
        LET strict == json_loads(text)
            span == IF HasMatch(text.s)
                    THEN json_loads(JStr(MatchGroup(text.s)))
                    ELSE DecodeError
        IN  IF strict.tag = "ok" THEN parsed = Return(strict.v)
            ELSE IF span.tag = "ok" THEN parsed = Return(span.v)
            ELSE /\ parsed.tag = "return"
                 /\ parsed.v.kind = "obj"
                 /\ DOMAIN parsed.v.fields = {"error", "raw"}
                 /\ parsed.v.fields["error"] = JStr(<<"Failed to parse JSON">>)
                 /\ parsed.v.fields["raw"] = text

\* C8: analyze_gauge requests the candidates in list order, each at most
\* once, at most Len(models) requests in all; every step of the loop either
\* returns or makes the next request, and a step is always possible, so the
\* call ends with a result.
C8_InOrderAtMostOnce ==
    /\ [](/\ Len(calls) <= Len(models)
          /\ \A k \in 1..Len(calls) : calls[k].model = models[k]
          /\ pc = "loop" => model_idx = Len(calls) + 1
          /\ pc = "returned" => ai_data # PyNone)
    /\ [][pc = "loop" =>
            \/ pc' = "returned" /\ Len(calls') <= Len(models)
            \/ pc' = "loop" /\ Len(calls') = Len(calls) + 1
                            /\ model_idx' = model_idx + 1]_vars
    /\ [](pc = "loop" =>
            ENABLED (AllFailed \/ \E d \in ErrDescs : RequestRaises(d)))

C8_Witness ==
    /\ pc = "returned"
    /\ Len(calls) = Len(models)
    /\ Requested(1).raises
    /\ Requested(2).raises
    /\ ~Requested(Len(models)).raises

ReturnsMapping == pc = "returned" /\ ai_data.kind = "obj"
                     /\ "error" \notin DOMAIN ai_data.fields

\* C9: every mapping without an `error` key that an analysis returns, one
\* with no keys included, becomes the staged result and the verification
\* form is shown for it by the script run that follows.
C9_FormAlwaysShown ==
    [][ReturnsMapping => staging_data' = ai_data /\ form' = "shown"]_vars

\* C10: an analysis that ends in an error result changes neither the history
\* nor staging_data, and a form that was shown is shown again.
C10_ErrorLeavesSession ==
    [][(pc = "returned" /\ ai_data.kind = "obj"
          /\ "error" \in DOMAIN ai_data.fields) =>
          /\ staging_data' = staging_data
          /\ history' = history
          /\ form = "shown" => form' = "shown"]_vars

C10_Witness ==
    /\ alert = "Error"
    /\ form = "shown"
    /\ staging_data.kind = "obj"
    /\ Len(history) = 1

====
